---------------------------- MODULE Spec2Model ----------------------------
(***************************************************************************)
(* A model of UVisionComponent (ROSIntegrationVision): the per-tick        *)
(* capture pipeline of TickComponent, the two conversion threads           *)
(* ProcessColor / ProcessDepth, the shutdown in EndPlay, the framerate    *)
(* gate, the palette of GenerateColors and ColorAllObjects, the tone       *)
(* mapping of ProcessChannel and the geometry of convertDepth.             *)
(*                                                                         *)
(* Time is counted in milliseconds (the source uses float seconds).  Pixel *)
(* and header data are told apart by the tick they belong to: a datum is   *)
(* either of the current tick (the last fired one, TRUE) or not (FALSE: of *)
(* an earlier tick, of a failed capture, or never written); when a tick    *)
(* fires, everything stored so far stops being of the current tick.        *)
(* PacketBuffer is not part of the sources at hand: its four transaction   *)
(* calls are modelled from section 4.1 of the specification.               *)
(***************************************************************************)
EXTENDS Integers, FiniteSets, Sequences, TLC

(* ------------------------------ bounds -------------------------------- *)

\* Fired ticks explored by the thread-level specification.
MaxTicks == 2

\* Spurious wake-ups of condition_variable::wait explored per run.
MaxSpurious == 1

\* Unpaused elapsed time (ms) explored by the framerate specification.
MaxElapsed == 200

\* Elapsed time (ms) explored by the 16 ms gating specification.
MaxGateElapsed == 1600

\* Largest count asked of GenerateColors, and calls of it in a row.
MaxRequested == 210
MaxGenCalls == 2

\* Object names come in NumBlocks groups of BlockSize; a world holds the
\* objects of some groups in a row.  ColorAllObjects passes explored.
NumBlocks == 3
BlockSize == 20
MaxPasses == 3

\* Largest Width and Height of the depth geometry specification.
MaxWidth == 8
MaxHeight == 8

(* ----------------------------- constants ------------------------------ *)

\* Milliseconds per second: FrameTime = 1.0f / Framerate, in ms.
MsPerSecond == 1000

\* Framerate set by the constructor.
DefaultFramerate == 1

\* The framerate and the tick spacing (ms) of the framerate-gating scenario.
GatingFramerates == {10}
GatingDeltas == {16}

\* Width(960), Height(540), Brightness(0.f), Contrast(1.f)
\* GenerateColors: MaxHue, ShiftHue
MaxHue == 50
ShiftHue == 21

\* Counts asked of GenerateColors.
RequestedCounts == {1, 10, 49, 50, 51, 200}

\* ProcessChannel: channel / 255.f, out - 128
ChannelMax == 255
ContrastPivot == 128

\* Contrast and Brightness settings of the tone-mapping specification.
Contrasts == {-1, 0, 1}
Brightnesses == {-128, 0, 20}

\* 1 / GammaCorrection: GammaCorrection 1 and GammaCorrection 0.5.
InvGammas == {1, 2}

DefaultWidth == 960
DefaultHeight == 540
DefaultBrightness == 0
DefaultContrast == 1

Workers == {"color", "depth"}
Inst == {0, 1}

\* Framerates the component is configured with (editor property, SetFramerate).
Framerates == {10, 25}

\* DeltaTime values of the thread-level specification.
ConcDeltas == {500, 1000}

\* DeltaTime values of the framerate specification.
RateDeltas == {16, 40, 100}

VARIABLES
  pc,            \* position of the game thread (producer)
  wpc,           \* position of each conversion thread
  mtx,           \* owner of WaitColor / WaitDepth: "free", "producer", "worker"
  Running,
  Paused,
  Framerate,
  FrameTime,
  TimePassed,
  UseEngineFramerate,
  raw,           \* raw[w]: ImageColor / ImageDepth hold the current tick's pixels
  role,          \* PacketBuffer: role[i] of instance i, "write" or "read"
  writeOpen,     \* PacketBuffer: a write transaction is open
  readOpen,      \* PacketBuffer: a read transaction is open
  writeInst,     \* PacketBuffer: instance of the last opened write transaction
  readInst,      \* PacketBuffer: instance of the last opened read transaction
  completed,     \* PacketBuffer: a completed write exists
  invalidState,  \* PacketBuffer: InvalidState was raised
  header,        \* header[i]: instance i carries the current tick's header
  plane,         \* plane[i][w]: [cur, partial] of a converted plane
  wtarget,       \* wtarget[w]: instance the worker's output pointer refers to
  convData,      \* convData[w]: the pixels being converted are the current tick's
  tick,          \* history: number of fired ticks
  signalled,     \* history: tick notifications sent to each worker
  convStarted,   \* history: conversions started by each worker
  convDone,      \* history: the worker has converted the current tick's raw plane
  wokenBy,       \* history: who ended the worker's last wait
  capFail,       \* history: a capture of the current tick failed
  lastCall,      \* history: last PacketBuffer call
  prevCall,      \* history: the PacketBuffer call before lastCall
  lastDoneInst,  \* history: instance closed by the last DoneWriting
  spurious,      \* history: spurious wake-ups so far
  elapsed,       \* history: unpaused DeltaTime summed since SetFramerate
  framesFired,   \* history: ticks fired since SetFramerate
  engineUsed,    \* history: a tick ran with UseEngineFramerate since SetFramerate
  lastAccum,     \* history: TimePassed + DeltaTime of the last unpaused tick
  sinceFire,     \* history: unfired ticks since the last fired tick
  lastGap,       \* history: ticks from the fired tick before to the last one
  lastTick,      \* history: outcome of the last TickComponent call
  ObjectColors,  \* the palette, a sequence of colors
  ObjectToColor, \* object name -> color identifier
  ColorsUsed,
  checkFailed,   \* the fatal check of ColorAllObjects has failed
  outOfRange,    \* history: ColorObject indexed ObjectColors out of range
  passes,        \* history: ColorAllObjects passes so far
  numberOfActors,\* history: NumberOfActors of the last pass
  seenAgain,     \* history: actors of the last pass that had a color already
  requested,     \* history: NumberOfColors of the last GenerateColors call
  genCalls,      \* history: GenerateColors calls so far
  genCounts,     \* history: <<SatCount, ValCount>> of the last GenerateColors
  Contrast,
  Brightness,
  chanIn,        \* a channel value handed to ProcessChannel
  chanOut,       \* what ProcessChannel returned for it
  toneDone,      \* history: ProcessChannel has been applied to chanIn
  InvGamma,      \* 1 / GammaCorrection
  chanOutFloat,  \* what the float overload returned for chanIn / 255
  floatDone,     \* history: the float overload has been applied
  chanOutHalf,   \* what the FFloat16 overload returned for chanIn / 255
  halfDone,      \* history: the FFloat16 overload has been applied
  Width,
  Height,
  depthWritten,  \* output values written by the last convertDepth call,
                 \* -1 before the first call
  DisableTFPublishing,
  lateRead,      \* history: HeaderRead was used with no read transaction open
  pausedTick     \* history: TickComponent was called since Pause(true)

threadVars == <<pc, wpc, mtx, Running, raw, wtarget, convData>>
bufferVars == <<role, writeOpen, readOpen, writeInst, readInst, completed,
                invalidState, header, plane>>
rateVars   == <<Paused, Framerate, FrameTime, TimePassed, UseEngineFramerate>>
threadHist == <<tick, signalled, convStarted, convDone, wokenBy, capFail,
                spurious>>
callHist   == <<lastCall, prevCall, lastDoneInst>>
rateHist   == <<elapsed, framesFired, engineUsed, lastAccum, sinceFire,
                lastGap, lastTick>>

paletteVars == <<ObjectColors, ObjectToColor, ColorsUsed, checkFailed,
                 outOfRange, passes, numberOfActors, seenAgain, requested,
                 genCalls,
                 genCounts>>
toneVars   == <<Contrast, Brightness, InvGamma, chanIn, chanOut, toneDone,
                chanOutFloat, floatDone, chanOutHalf, halfDone>>
depthVars  == <<Width, Height, depthWritten>>
tfVars     == <<DisableTFPublishing, lateRead>>
pauseHist  == <<pausedTick>>

\* What no step of the threads touches, the read phase of a tick apart.
otherVars  == <<paletteVars, toneVars, depthVars, tfVars, pauseHist>>

vars == <<threadVars, bufferVars, rateVars, threadHist, callHist, rateHist,
          otherVars>>

(* ------------------------- framerate gate ----------------------------- *)

\* FrameTime = 1.0f / _Framerate
FrameTimeOf(f) == MsPerSecond \div f

\* TimePassed += DeltaTime
GateAccum(dt) == TimePassed + dt

\* if (!UseEngineFramerate && TimePassed < FrameTime) return;
GateFires(dt) == ~(~UseEngineFramerate /\ GateAccum(dt) < FrameTime)

GateTimePassed_NoSubtract(dt) == GateAccum(dt)

GateTimePassed_Reset(dt) == IF GateFires(dt) THEN 0 ELSE GateAccum(dt)

\* TimePassed -= FrameTime, on a fired tick only
GateTimePassed(dt) ==
  IF GateFires(dt) THEN GateAccum(dt) - FrameTime ELSE GateAccum(dt)

(* ------------------------- PacketBuffer ------------------------------- *)

\* The instance Buffer->Color, Buffer->Depth and Buffer->HeaderWrite refer to.
WriteSide == CHOOSE i \in Inst : role[i] = "write"

\* The instance Buffer->Read and Buffer->HeaderRead refer to.
ReadSide == CHOOSE i \in Inst : role[i] = "read"

Logged(call) == lastCall' = call /\ prevCall' = lastCall

StartWriting ==
  /\ Logged("StartWriting")
  /\ IF writeOpen
       THEN invalidState' = TRUE /\ UNCHANGED <<writeOpen, writeInst>>
       ELSE writeOpen' = TRUE /\ writeInst' = WriteSide
            /\ UNCHANGED invalidState
  /\ UNCHANGED <<role, readOpen, readInst, completed, lastDoneInst>>

DoneWriting ==
  /\ Logged("DoneWriting")
  /\ writeOpen' = FALSE
  /\ completed' = TRUE
  /\ lastDoneInst' = WriteSide
  /\ role' = [i \in Inst |-> IF role[i] = "write" THEN "read" ELSE "write"]
  /\ UNCHANGED <<readOpen, readInst, writeInst, invalidState>>

StartReading ==
  /\ Logged("StartReading")
  /\ IF ~completed \/ readOpen
       THEN invalidState' = TRUE /\ UNCHANGED <<readOpen, readInst>>
       ELSE readOpen' = TRUE /\ readInst' = ReadSide
            /\ UNCHANGED invalidState
  /\ UNCHANGED <<role, writeOpen, writeInst, completed, lastDoneInst>>

DoneReading ==
  /\ Logged("DoneReading")
  /\ readOpen' = FALSE
  /\ UNCHANGED <<role, writeOpen, writeInst, readInst, completed,
                 invalidState, lastDoneInst>>

(* ------------------------ condition variables ------------------------- *)

\* CVColor.notify_one() / CVDepth.notify_one(): wakes the thread blocked in
\* wait, if there is one; the notification is not remembered otherwise.
NotifyOne(w, who) ==
  IF wpc[w] = "waiting"
    THEN /\ wpc' = [wpc EXCEPT ![w] = "woken"]
         /\ wokenBy' = [wokenBy EXCEPT ![w] = who]
    ELSE UNCHANGED <<wpc, wokenBy>>

(* ------------------------- depth conversion --------------------------- *)

\* Samples one vector operation of convertDepth consumes.
VectorWidth == 4

\* convertDepth: size = (Width * Height) / 4 iterations, four output values
\* each.  The number of output values written.
convertDepth == ((Width * Height) \div VectorWidth) * VectorWidth

(* ------------------------------ Init ---------------------------------- *)

InitThreads ==
  /\ pc = "constructed"
  /\ wpc = [w \in Workers |-> "none"]
  /\ mtx = [w \in Workers |-> "free"]
  /\ Running = FALSE
  /\ Paused = FALSE
  /\ Framerate = DefaultFramerate
  /\ FrameTime = FrameTimeOf(DefaultFramerate)
  /\ TimePassed = 0
  /\ UseEngineFramerate = FALSE
  /\ raw = [w \in Workers |-> FALSE]
  /\ role = [i \in Inst |-> IF i = 0 THEN "write" ELSE "read"]
  /\ writeOpen = FALSE
  /\ readOpen = FALSE
  /\ writeInst = 0
  /\ readInst = 1
  /\ completed = FALSE
  /\ invalidState = FALSE
  /\ header = [i \in Inst |-> FALSE]
  /\ plane = [i \in Inst |->
                [w \in Workers |-> [cur |-> FALSE, partial |-> FALSE]]]
  /\ wtarget = [w \in Workers |-> 0]
  /\ convData = [w \in Workers |-> FALSE]
  /\ tick = 0
  /\ signalled = [w \in Workers |-> 0]
  /\ convStarted = [w \in Workers |-> 0]
  /\ convDone = [w \in Workers |-> FALSE]
  /\ wokenBy = [w \in Workers |-> "none"]
  /\ capFail = FALSE
  /\ lastCall = "none"
  /\ prevCall = "none"
  /\ lastDoneInst = 1
  /\ spurious = 0
  /\ lastTick = "none"
  /\ elapsed = 0
  /\ framesFired = 0
  /\ engineUsed = FALSE
  /\ lastAccum = 0
  /\ sinceFire = 0
  /\ lastGap = 0

\* ColorsUsed(0); ObjectColors and ObjectToColor are empty containers.
InitPalette ==
  /\ ObjectColors = << >>
  /\ ObjectToColor = << >>
  /\ ColorsUsed = 0
  /\ checkFailed = FALSE
  /\ outOfRange = FALSE
  /\ passes = 0
  /\ numberOfActors = 0
  /\ seenAgain = 0
  /\ requested = 0
  /\ genCalls = 0
  /\ genCounts = <<0, 0>>

\* GammaCorrection(1.0f), Brightness(0.f), Contrast(1.f)
InitTone ==
  /\ Contrast = DefaultContrast
  /\ Brightness = DefaultBrightness
  /\ InvGamma = 1
  /\ chanIn = 0
  /\ chanOut = 0
  /\ toneDone = FALSE
  /\ chanOutFloat = 0
  /\ floatDone = FALSE
  /\ chanOutHalf = 0
  /\ halfDone = FALSE

\* Width(960), Height(540)
InitDepth ==
  /\ Width = DefaultWidth
  /\ Height = DefaultHeight
  /\ depthWritten = -1

\* DisableTFPublishing has no initializer: the object's memory is zeroed.
InitTF ==
  /\ DisableTFPublishing = FALSE
  /\ lateRead = FALSE
  /\ pausedTick = FALSE

Init ==
  /\ InitThreads
  /\ InitPalette
  /\ InitTone
  /\ InitDepth
  /\ InitTF

(* ------------------------ game thread: setup -------------------------- *)

\* SetFramerate(f): Framerate = f; FrameTime = 1.0f / f; TimePassed = 0
SetFramerateTo(f) ==
  /\ Framerate' = f
  /\ FrameTime' = FrameTimeOf(f)
  /\ TimePassed' = 0
  /\ elapsed' = 0
  /\ framesFired' = 0
  /\ engineUsed' = FALSE
  /\ lastAccum' = 0
  /\ sinceFire' = 0
  /\ lastGap' = 0
  /\ lastTick' = "none"

\* BeginPlay: creates the buffer, sets Running and Paused, starts both
\* threads and ends with SetFramerate(Framerate).
BeginPlay ==
  /\ pc = "constructed"
  /\ pc' = "idle"
  /\ Running' = TRUE
  /\ Paused' = FALSE
  /\ wpc' = [w \in Workers |-> "loop"]
  /\ SetFramerateTo(Framerate)
  /\ pausedTick' = FALSE
  /\ UNCHANGED <<mtx, raw, wtarget, convData, UseEngineFramerate, bufferVars,
                 threadHist, callHist,
                 paletteVars, toneVars, depthVars, tfVars>>

\* Pause(_Pause), called on the game thread between ticks.
Pause(b) ==
  /\ pc = "idle"
  /\ Paused # b
  /\ Paused' = b
  /\ pausedTick' = FALSE
  /\ UNCHANGED <<threadVars, bufferVars, Framerate, FrameTime, TimePassed,
                 UseEngineFramerate, threadHist, callHist, rateHist,
                 paletteVars, toneVars, depthVars, tfVars>>

(* ------------------- game thread: TickComponent ----------------------- *)

PcLock(w)   == IF w = "color" THEN "lockColor"   ELSE "lockDepth"
PcRead(w)   == IF w = "color" THEN "readColor"   ELSE "readDepth"
PcUnlock(w) == IF w = "color" THEN "unlockColor" ELSE "unlockDepth"
PcNotify(w) == IF w = "color" THEN "notifyColor" ELSE "notifyDepth"

\* After the color plane comes the depth plane, after the depth plane the
\* buffer is closed.
PcAfterNotify(w) == IF w = "color" THEN "lockDepth" ELSE "doneWriting"

\* A tick fires: nothing stored so far is of the current tick any more.
Aged ==
  /\ raw' = [w \in Workers |-> FALSE]
  /\ convData' = [w \in Workers |-> FALSE]
  /\ convDone' = [w \in Workers |-> FALSE]
  /\ header' = [i \in Inst |-> FALSE]
  /\ plane' = [i \in Inst |-> [w \in Workers |->
                 [cur |-> FALSE, partial |-> plane[i][w].partial]]]

PauseCheck_Never == FALSE

\* if (Paused) return;
PauseCheck == Paused

\* Entry of TickComponent: the pause check and the framerate gate.  A fired
\* tick goes on to stamp the header.
TickEnter(dt) ==
  /\ pc = "idle"
  /\ (~PauseCheck /\ GateFires(dt)) => tick < MaxTicks
  /\ IF PauseCheck
       THEN UNCHANGED <<pc, TimePassed, tick, capFail, raw, convData,
                        convDone, header, plane>>
       ELSE /\ TimePassed' = GateTimePassed(dt)
            /\ IF GateFires(dt)
                 THEN /\ pc' = "stamp"
                      /\ tick' = tick + 1
                      /\ capFail' = FALSE
                      /\ Aged
                 ELSE UNCHANGED <<pc, tick, capFail, raw, convData,
                                  convDone, header, plane>>
  /\ UNCHANGED <<wpc, mtx, Running, wtarget, role, writeOpen, readOpen,
                 writeInst, readInst, completed, invalidState,
                 Paused, Framerate, FrameTime, UseEngineFramerate,
                 signalled, convStarted, wokenBy, spurious,
                 callHist, rateHist,
                 paletteVars, toneVars, depthVars, tfVars>>
  /\ pausedTick' = (pausedTick \/ Paused)

\* HeaderWrite->TimestampCapture, Translation, Rotation
TickStampHeader ==
  /\ pc = "stamp"
  /\ pc' = "startWriting"
  /\ header' = [header EXCEPT ![WriteSide] = TRUE]
  /\ UNCHANGED <<wpc, mtx, Running, raw, wtarget, convData, role, writeOpen,
                 readOpen, writeInst, readInst, completed, invalidState, plane,
                 rateVars, threadHist, callHist, rateHist,
                 otherVars>>

\* A failed transaction call is a fatal assertion: the game thread stops.
PcOr(next) == IF invalidState' THEN "crashed" ELSE next

TickStartWriting ==
  /\ pc = "startWriting"
  /\ StartWriting
  /\ pc' = PcOr("lockColor")
  /\ UNCHANGED <<wpc, mtx, Running, raw, wtarget, convData, header, plane,
                 rateVars, threadHist, rateHist,
                 otherVars>>

\* The lock step without the mutex: the capture starts whoever holds it.
TickLock_NoMutex(w) ==
  /\ pc = PcLock(w)
  /\ mtx' = [mtx EXCEPT ![w] = "producer"]
  /\ pc' = PcRead(w)
  /\ UNCHANGED <<wpc, Running, raw, wtarget, convData, bufferVars, rateVars,
                 threadHist, callHist, rateHist,
                 otherVars>>

\* Priv->WaitColor.lock() / Priv->WaitDepth.lock()
TickLock(w) ==
  /\ pc = PcLock(w)
  /\ mtx[w] = "free"
  /\ mtx' = [mtx EXCEPT ![w] = "producer"]
  /\ pc' = PcRead(w)
  /\ UNCHANGED <<wpc, Running, raw, wtarget, convData, bufferVars, rateVars,
                 threadHist, callHist, rateHist,
                 otherVars>>

\* ReadColor / ReadLinearColor / ReadFloat16Color: ReadPixels fills the raw
\* array or fails; its result is not looked at.
TickRead(w) ==
  /\ pc = PcRead(w)
  /\ \E ok \in BOOLEAN :
       /\ raw' = [raw EXCEPT ![w] = ok]
       /\ capFail' = (capFail \/ ~ok)
  /\ pc' = PcUnlock(w)
  /\ UNCHANGED <<wpc, mtx, Running, wtarget, convData, bufferVars, rateVars,
                 tick, signalled, convStarted, convDone, wokenBy, spurious,
                 callHist, rateHist,
                 otherVars>>

\* Priv->WaitColor.unlock() / Priv->WaitDepth.unlock()
TickUnlock(w) ==
  /\ pc = PcUnlock(w)
  /\ mtx' = [mtx EXCEPT ![w] = "free"]
  /\ pc' = PcNotify(w)
  /\ UNCHANGED <<wpc, Running, raw, wtarget, convData, bufferVars, rateVars,
                 threadHist, callHist, rateHist,
                 otherVars>>

\* Priv->CVColor.notify_one() / Priv->CVDepth.notify_one()
TickNotify(w) ==
  /\ pc = PcNotify(w)
  /\ NotifyOne(w, "tick")
  /\ signalled' = [signalled EXCEPT ![w] = @ + 1]
  /\ pc' = PcAfterNotify(w)
  /\ UNCHANGED <<mtx, Running, raw, wtarget, convData, bufferVars, rateVars,
                 tick, convStarted, convDone, capFail, spurious, callHist, rateHist,
                 otherVars>>

TickDoneWriting_Skipped ==
  /\ pc = "doneWriting"
  /\ pc' = "startReading"
  /\ UNCHANGED <<wpc, mtx, Running, raw, wtarget, convData, bufferVars,
                 rateVars, threadHist, callHist, rateHist,
                 otherVars>>

\* Priv->Buffer->DoneWriting(), right after the depth notification
TickDoneWriting ==
  /\ pc = "doneWriting"
  /\ DoneWriting
  /\ pc' = "startReading"
  /\ UNCHANGED <<wpc, mtx, Running, raw, wtarget, convData, header, plane,
                 rateVars, threadHist, rateHist,
                 otherVars>>

TickStartReading ==
  /\ pc = "startReading"
  /\ StartReading
  /\ pc' = PcOr("publish")
  /\ UNCHANGED <<wpc, mtx, Running, raw, wtarget, convData, header, plane,
                 rateVars, threadHist, rateHist,
                 otherVars>>

\* HeaderRead fields and the Read planes are taken, the depth plane is
\* converted and the color and depth images are published.
TickPublish ==
  /\ pc = "publish"
  /\ pc' = "doneReading"
  /\ depthWritten' = convertDepth
  /\ UNCHANGED <<wpc, mtx, Running, raw, wtarget, convData, bufferVars,
                 rateVars, threadHist, callHist, rateHist,
                 paletteVars, toneVars, Width, Height, tfVars, pauseHist>>

TickDoneReading_Skipped ==
  /\ pc = "doneReading"
  /\ pc' = "publishTF"
  /\ UNCHANGED <<wpc, mtx, Running, raw, wtarget, convData, bufferVars,
                 rateVars, threadHist, callHist, rateHist,
                 otherVars>>

TickDoneReading ==
  /\ pc = "doneReading"
  /\ DoneReading
  /\ pc' = "publishTF"
  /\ UNCHANGED <<wpc, mtx, Running, raw, wtarget, convData, header, plane,
                 rateVars, threadHist, rateHist,
                 otherVars>>

\* TF and CameraInfo publication, the end of the tick.  Unless
\* DisableTFPublishing is set, the transform is filled from
\* HeaderRead->Translation and HeaderRead->Rotation.
TickPublishTF ==
  /\ pc = "publishTF"
  /\ pc' = "idle"
  /\ lateRead' = (lateRead \/ (~DisableTFPublishing /\ ~readOpen))
  /\ UNCHANGED <<wpc, mtx, Running, raw, wtarget, convData, bufferVars,
                 rateVars, threadHist, callHist, rateHist,
                 paletteVars, toneVars, depthVars, DisableTFPublishing,
                 pauseHist>>

(* ----------------- ProcessColor / ProcessDepth threads ----------------- *)

\* while (this->Running)
WorkerLoop(w) ==
  /\ wpc[w] = "loop"
  /\ wpc' = [wpc EXCEPT ![w] = IF Running THEN "lock" ELSE "done"]
  /\ UNCHANGED <<pc, mtx, Running, raw, wtarget, convData, bufferVars,
                 rateVars, threadHist, callHist, rateHist,
                 otherVars>>

\* std::unique_lock<std::mutex> WaitLock(Priv->WaitColor);
\* Priv->CVColor.wait(WaitLock): the mutex is taken, and released again as the
\* thread blocks.  The wait has no predicate.
WorkerWait(w) ==
  /\ wpc[w] = "lock"
  /\ mtx[w] = "free"
  /\ wpc' = [wpc EXCEPT ![w] = "waiting"]
  /\ UNCHANGED <<pc, mtx, Running, raw, wtarget, convData, bufferVars,
                 rateVars, threadHist, callHist, rateHist,
                 otherVars>>

\* A wait without a predicate may also return without a notification.
SpuriousWake(w) ==
  /\ wpc[w] = "waiting"
  /\ spurious < MaxSpurious
  /\ spurious' = spurious + 1
  /\ wpc' = [wpc EXCEPT ![w] = "woken"]
  /\ wokenBy' = [wokenBy EXCEPT ![w] = "spurious"]
  /\ UNCHANGED <<pc, mtx, Running, raw, wtarget, convData, bufferVars,
                 rateVars, tick, signalled, convStarted, convDone, capFail,
                 callHist, rateHist,
                 otherVars>>

\* wait returns once the mutex is held again; nothing is checked after it:
\* ColorToBytes(ImageColor, Priv->Buffer->Color) / ToDepthImage(ImageDepth,
\* Priv->Buffer->Depth) takes the output pointer and writes the first pixels.
WorkerConvert(w) ==
  /\ wpc[w] = "woken"
  /\ mtx[w] = "free"
  /\ mtx' = [mtx EXCEPT ![w] = "worker"]
  /\ wpc' = [wpc EXCEPT ![w] = "converting"]
  /\ wtarget' = [wtarget EXCEPT ![w] = WriteSide]
  /\ convData' = [convData EXCEPT ![w] = raw[w]]
  /\ plane' = [plane EXCEPT ![WriteSide][w].partial = TRUE]
  /\ convStarted' = [convStarted EXCEPT ![w] = @ + 1]
  /\ UNCHANGED <<pc, Running, raw, role, writeOpen, readOpen, writeInst,
                 readInst, completed, invalidState, header, rateVars, tick,
                 signalled, convDone, wokenBy, capFail, spurious, callHist, rateHist,
                 otherVars>>

\* The last pixel is written; Priv->CVColor.notify_one() finds no thread
\* waiting (the thread itself is the only one that waits on it); the
\* unique_lock goes out of scope.
WorkerFinish(w) ==
  /\ wpc[w] = "converting"
  /\ wpc' = [wpc EXCEPT ![w] = "loop"]
  /\ mtx' = [mtx EXCEPT ![w] = "free"]
  /\ plane' = [plane EXCEPT ![wtarget[w]][w] =
                 [cur |-> convData[w], partial |-> FALSE]]
  /\ convDone' = [convDone EXCEPT ![w] = convData[w]]
  /\ wtarget' = [wtarget EXCEPT ![w] = 0]
  /\ convData' = [convData EXCEPT ![w] = FALSE]
  /\ wokenBy' = [wokenBy EXCEPT ![w] = "none"]
  /\ UNCHANGED <<pc, Running, raw, role, writeOpen, readOpen, writeInst,
                 readInst, completed, invalidState, header, rateVars, tick,
                 signalled, convStarted, capFail, spurious, callHist, rateHist,
                 otherVars>>

(* ----------------------- game thread: EndPlay ------------------------- *)

PcEndNotify(w) == IF w = "color" THEN "endNotifyColor" ELSE "endNotifyDepth"
PcEndJoin(w)   == IF w = "color" THEN "joinColor" ELSE "joinDepth"
PcAfterEndNotify(w) == IF w = "color" THEN "endNotifyDepth" ELSE "joinColor"
PcAfterJoin(w) == IF w = "color" THEN "joinDepth" ELSE "ended"

\* Running = false
EndPlay ==
  /\ pc = "idle"
  /\ Running' = FALSE
  /\ pc' = "endNotifyColor"
  /\ UNCHANGED <<wpc, mtx, raw, wtarget, convData, bufferVars, rateVars,
                 threadHist, callHist, rateHist,
                 otherVars>>

\* Priv->CVColor.notify_one() / Priv->CVDepth.notify_one()
EndNotify(w) ==
  /\ pc = PcEndNotify(w)
  /\ NotifyOne(w, "endplay")
  /\ pc' = PcAfterEndNotify(w)
  /\ UNCHANGED <<mtx, Running, raw, wtarget, convData, bufferVars, rateVars,
                 tick, signalled, convStarted, convDone, capFail, spurious,
                 callHist, rateHist,
                 otherVars>>

\* Priv->ThreadColor.join() / Priv->ThreadDepth.join()
EndJoin(w) ==
  /\ pc = PcEndJoin(w)
  /\ wpc[w] = "done"
  /\ pc' = PcAfterJoin(w)
  /\ UNCHANGED <<wpc, mtx, Running, raw, wtarget, convData, bufferVars,
                 rateVars, threadHist, callHist, rateHist,
                 otherVars>>

(* -------------------- thread-level specification ---------------------- *)

GameThread ==
  \/ BeginPlay
  \/ \E b \in BOOLEAN : Pause(b)
  \/ \E dt \in ConcDeltas : TickEnter(dt)
  \/ TickStampHeader
  \/ TickStartWriting
  \/ \E w \in Workers : TickLock(w)
  \/ \E w \in Workers : TickRead(w)
  \/ \E w \in Workers : TickUnlock(w)
  \/ \E w \in Workers : TickNotify(w)
  \/ TickDoneWriting
  \/ TickStartReading
  \/ TickPublish
  \/ TickDoneReading
  \/ TickPublishTF
  \/ EndPlay
  \/ \E w \in Workers : EndNotify(w)
  \/ \E w \in Workers : EndJoin(w)

WorkerThread(w) ==
  \/ WorkerLoop(w)
  \/ WorkerWait(w)
  \/ WorkerConvert(w)
  \/ WorkerFinish(w)

Next ==
  \/ GameThread
  \/ \E w \in Workers : WorkerThread(w)
  \/ \E w \in Workers : SpuriousWake(w)

Spec == Init /\ [][Next]_vars

\* Every thread that can take a step eventually takes one; a spurious wake-up
\* is never owed.  The host is not obliged to tick, pause or end play, but an
\* entered TickComponent or EndPlay runs on.
GameThreadRuns ==
  \/ TickStampHeader
  \/ TickStartWriting
  \/ \E w \in Workers : TickLock(w)
  \/ \E w \in Workers : TickRead(w)
  \/ \E w \in Workers : TickUnlock(w)
  \/ \E w \in Workers : TickNotify(w)
  \/ TickDoneWriting
  \/ TickStartReading
  \/ TickPublish
  \/ TickDoneReading
  \/ TickPublishTF
  \/ \E w \in Workers : EndNotify(w)
  \/ \E w \in Workers : EndJoin(w)

FairSpec ==
  /\ Init
  /\ [][Next]_vars
  /\ WF_vars(GameThreadRuns)
  /\ \A w \in Workers : WF_vars(WorkerThread(w))

(* ---------------------- framerate specification ----------------------- *)

\* SetFramerate(_Framerate), called on the game thread between ticks.
SetFramerate(f) ==
  /\ pc = "idle"
  /\ SetFramerateTo(f)
  /\ UNCHANGED <<threadVars, bufferVars, Paused, UseEngineFramerate,
                 threadHist, callHist,
                 otherVars>>

\* UseEngineFramerate is an editable property, changed between ticks.
SetUseEngineFramerate(b) ==
  /\ pc = "idle"
  /\ UseEngineFramerate # b
  /\ UseEngineFramerate' = b
  /\ UNCHANGED <<threadVars, bufferVars, Paused, Framerate, FrameTime,
                 TimePassed, threadHist, callHist, rateHist,
                 otherVars>>

\* One call of TickComponent, start to end, as the framerate gate sees it:
\* the pause check, the accumulator and the decision to fire.  The body of a
\* fired tick reads and writes none of Paused, TimePassed, FrameTime and
\* UseEngineFramerate; here it counts as one more frame.
TickRate(dt, cap) ==
  /\ pc = "idle"
  /\ ~PauseCheck => elapsed + dt <= cap
  /\ IF PauseCheck
       THEN /\ lastTick' = "paused"
            /\ UNCHANGED <<TimePassed, elapsed, framesFired, engineUsed,
                           lastAccum, sinceFire, lastGap>>
       ELSE /\ TimePassed' = GateTimePassed(dt)
            /\ elapsed' = elapsed + dt
            /\ lastAccum' = GateAccum(dt)
            /\ engineUsed' = (engineUsed \/ UseEngineFramerate)
            /\ IF GateFires(dt)
                 THEN /\ lastTick' = "fired"
                      /\ framesFired' = framesFired + 1
                      /\ lastGap' = sinceFire + 1
                      /\ sinceFire' = 0
                 ELSE /\ lastTick' = "skipped"
                      /\ sinceFire' = sinceFire + 1
                      /\ UNCHANGED <<framesFired, lastGap>>
  /\ UNCHANGED <<threadVars, bufferVars, Paused, Framerate, FrameTime,
                 UseEngineFramerate, threadHist, callHist,
                 paletteVars, toneVars, depthVars, tfVars>>
  /\ pausedTick' = (pausedTick \/ Paused)

NextRate ==
  \/ BeginPlay
  \/ \E f \in Framerates : SetFramerate(f)
  \/ \E b \in BOOLEAN : Pause(b)
  \/ \E b \in BOOLEAN : SetUseEngineFramerate(b)
  \/ \E dt \in RateDeltas : TickRate(dt, MaxElapsed)

SpecRate == Init /\ [][NextRate]_vars

\* framerate = 10, UseEngineFramerate = false, ticks spaced 16 ms apart.
NextGating ==
  \/ BeginPlay
  \/ \E f \in GatingFramerates : SetFramerate(f)
  \/ \E dt \in GatingDeltas : TickRate(dt, MaxGateElapsed)

SpecGating == Init /\ [][NextGating]_vars

(* --------------------- palette and object colors ---------------------- *)

Max(a, b) == IF a > b THEN a ELSE b

\* while (left > 0): ValCount grows, then SatCount if colors are still
\* missing.  NumberOfColors - SatCount * ValCount * HueCount is computed
\* in uint32_t and stored in an int32_t: for counts below 2^31 that is the
\* plain difference.
RECURSIVE CountLoop(_, _, _, _)
CountLoop(NumberOfColors, SatCount, ValCount, left) ==
  IF left <= 0
    THEN <<SatCount, ValCount>>
    ELSE LET val == ValCount + 1
             left1 == NumberOfColors - SatCount * val * MaxHue
             sat == IF left1 > 0 THEN SatCount + 1 ELSE SatCount
             left2 == IF left1 > 0
                        THEN NumberOfColors - sat * val * MaxHue
                        ELSE left1
         IN  CountLoop(NumberOfColors, sat, val, left2)

ColorCounts_NoGrowth(NumberOfColors) == <<1, 1>>

\* <<SatCount, ValCount>> for a requested count; HueCount is MaxHue.
ColorCounts(NumberOfColors) ==
  CountLoop(NumberOfColors, 1, 1, Max(0, NumberOfColors - MaxHue))

HueIndex_EvenShift(h) == (h * (ShiftHue - 1)) % MaxHue

\* (h * ShiftHue) % MaxHue
HueIndex(h) == (h * ShiftHue) % MaxHue

\* The colors one call adds, saturation outermost, hue innermost.  A color
\* is <<s, max(1, SatCount - 1), v, max(1, ValCount - 1), hue index>>:
\* saturation 1 - s * StepSat, value 1 - v * StepVal, hue index * StepHue.
GeneratedColors(NumberOfColors) ==
  LET SatCount == ColorCounts(NumberOfColors)[1]
      ValCount == ColorCounts(NumberOfColors)[2]
  IN  [i \in 1..(SatCount * ValCount * MaxHue) |->
         LET k == i - 1
             sIdx == k \div (ValCount * MaxHue)
             vIdx == (k \div MaxHue) % ValCount
             hIdx == k % MaxHue
         IN  <<sIdx, Max(1, SatCount - 1), vIdx, Max(1, ValCount - 1),
               HueIndex(hIdx)>>]

GenerateColors_Regenerated(NumberOfColors) == GeneratedColors(NumberOfColors)

\* GenerateColors: ObjectColors.Reserve(...), then ObjectColors.Add(...) for
\* every color; ObjectColors is not emptied first.  The new ObjectColors.
GenerateColors(NumberOfColors) ==
  ObjectColors \o GeneratedColors(NumberOfColors)

\* One call of GenerateColors, on its own.
GenerateColorsCall(N) ==
  /\ genCalls < MaxGenCalls
  /\ ObjectColors' = GenerateColors(N)
  /\ genCounts' = ColorCounts(N)
  /\ requested' = N
  /\ genCalls' = genCalls + 1
  /\ UNCHANGED <<ObjectToColor, ColorsUsed, checkFailed, outOfRange, passes,
                 numberOfActors, seenAgain>>
  /\ UNCHANGED <<threadVars, bufferVars, rateVars, threadHist, callHist,
                 rateHist, toneVars, depthVars, tfVars, pauseHist>>

\* The count of the first call is the one drawn at the start; later calls
\* repeat it or ask for one of RequestedCounts.
NextCounts ==
  {requested} \cup (IF genCalls = 0 THEN {} ELSE RequestedCounts)

InitGenerate ==
  /\ InitThreads
  /\ InitTone
  /\ InitDepth
  /\ InitTF
  /\ ObjectColors = << >>
  /\ ObjectToColor = << >>
  /\ ColorsUsed = 0
  /\ checkFailed = FALSE
  /\ outOfRange = FALSE
  /\ passes = 0
  /\ numberOfActors = 0
  /\ seenAgain = 0
  /\ requested \in 0..MaxRequested
  /\ genCalls = 0
  /\ genCounts = <<0, 0>>

NextGenerate == \E N \in NextCounts : GenerateColorsCall(N)

SpecGenerate == InitGenerate /\ [][NextGenerate]_vars

(* --------------------------- tone mapping ----------------------------- *)

\* Values of the tone mapping are fractions <<numerator, denominator>>;
\* GammaCorrection is 1 / InvGamma, Contrast and Brightness are whole.

\* ProcessChannel(const uint8 &channel):
\* Pow(channel / 255.f, 1 / GammaCorrection) * 255.f
GammaCurve(channel) ==
  <<channel ^ InvGamma, ChannelMax ^ (InvGamma - 1)>>

\* ProcessChannel(const float &channel), channel = visual / 255:
\* (Pow(channel / 255.f, 1 / GammaCorrection) * 255.f) * 255.f, which is
\* visual^InvGamma / 255^(2 * InvGamma - 2)
GammaCurveFloat(visual) ==
  <<visual ^ InvGamma, ChannelMax ^ (2 * InvGamma - 2)>>

\* out += Contrast * (out - 128) + 128 + Brightness
Adjust(out) ==
  <<out[1] * (1 + Contrast)
      + out[2] * (ContrastPivot * (1 - Contrast) + Brightness),
    out[2]>>

\* if (out > 255.f) out = 255.f; else if (out < 0.f) out = 0.f;
Clamp(out) ==
  IF out[1] > ChannelMax * out[2] THEN <<ChannelMax, 1>>
  ELSE IF out[1] < 0 THEN <<0, 1>>
  ELSE out

\* (uint8_t) std::round(out), out not negative
Round(out) == (2 * out[1] + out[2]) \div (2 * out[2])

\* ProcessChannel(const uint8 &channel)
ProcessChannel(channel) == Round(Clamp(Adjust(GammaCurve(channel))))

\* ProcessChannel(const float &channel) for the channel value visual / 255
ProcessChannelFloat(visual) ==
  Round(Clamp(Adjust(GammaCurveFloat(visual))))

\* ProcessChannel(const FFloat16 &channel) for the channel value
\* visual / 255: the body of the float overload.  The rounding of
\* visual / 255 to half precision is left out.
ProcessChannelHalf(visual) ==
  Round(Clamp(Adjust(GammaCurveFloat(visual))))

toneOthers == <<threadVars, bufferVars, rateVars, threadHist, callHist,
                rateHist, paletteVars, depthVars, tfVars, pauseHist>>

\* One channel value is put through ProcessChannel.
ProcessChannelCall ==
  /\ ~toneDone
  /\ chanOut' = ProcessChannel(chanIn)
  /\ toneDone' = TRUE
  /\ UNCHANGED <<Contrast, Brightness, InvGamma, chanIn, chanOutFloat,
                 floatDone, chanOutHalf, halfDone>>
  /\ UNCHANGED toneOthers

\* The same visual value, as a normalized float, is put through the float
\* overload.
ProcessChannelFloatCall ==
  /\ ~floatDone
  /\ chanOutFloat' = ProcessChannelFloat(chanIn)
  /\ floatDone' = TRUE
  /\ UNCHANGED <<Contrast, Brightness, InvGamma, chanIn, chanOut, toneDone,
                 chanOutHalf, halfDone>>
  /\ UNCHANGED toneOthers

\* The same visual value, as a half float, is put through the FFloat16
\* overload.
ProcessChannelHalfCall ==
  /\ ~halfDone
  /\ chanOutHalf' = ProcessChannelHalf(chanIn)
  /\ halfDone' = TRUE
  /\ UNCHANGED <<Contrast, Brightness, InvGamma, chanIn, chanOut, toneDone,
                 chanOutFloat, floatDone>>
  /\ UNCHANGED toneOthers

InitProcessChannel ==
  /\ InitThreads
  /\ InitPalette
  /\ InitDepth
  /\ InitTF
  /\ Contrast \in Contrasts
  /\ Brightness \in Brightnesses
  /\ InvGamma \in InvGammas
  /\ chanIn \in 0..ChannelMax
  /\ chanOut = 0
  /\ toneDone = FALSE
  /\ chanOutFloat = 0
  /\ floatDone = FALSE
  /\ chanOutHalf = 0
  /\ halfDone = FALSE

NextProcessChannel ==
  \/ ProcessChannelCall
  \/ ProcessChannelFloatCall
  \/ ProcessChannelHalfCall

SpecProcessChannel == InitProcessChannel /\ [][NextProcessChannel]_vars

(* ------------------------- depth geometry ----------------------------- *)

\* A fired tick as the depth conversion sees it: convertDepth is run on the
\* depth plane of the read side.
TickDepth ==
  /\ pc = "idle"
  /\ tick < MaxTicks
  /\ tick' = tick + 1
  /\ depthWritten' = convertDepth
  /\ UNCHANGED <<Width, Height>>
  /\ UNCHANGED <<threadVars, bufferVars, rateVars, signalled, convStarted,
                 convDone, wokenBy, capFail, spurious, callHist, rateHist,
                 paletteVars, toneVars, tfVars, pauseHist>>

\* Width and Height are editable properties, set before play begins.
InitGeometry ==
  /\ InitThreads
  /\ InitPalette
  /\ InitTone
  /\ InitTF
  /\ Width \in 1..MaxWidth
  /\ Height \in 1..MaxHeight
  /\ depthWritten = -1

NextGeometry ==
  \/ BeginPlay
  \/ TickDepth

SpecGeometry == InitGeometry /\ [][NextGeometry]_vars

(* -------------------------- ColorAllObjects --------------------------- *)

\* The actors of a world, in the order TActorIterator visits them: the
\* objects of groups a..b.  Objects are named by their number.
ActorRange(a, b) ==
  [i \in 1..((b - a + 1) * BlockSize) |-> (a - 1) * BlockSize + i]

\* GetHumanReadableName is the actor's label, which two actors may share: a
\* world in which every name of group a is borne by two actors.
Namesakes(a) == ActorRange(a, a) \o ActorRange(a, a)

Worlds ==
  {ActorRange(a, b) : a \in 1..NumBlocks, b \in 1..NumBlocks}
    \cup {Namesakes(a) : a \in 1..NumBlocks}

NeedsColor_Always(map, name) == TRUE

\* if (!ObjectToColor.Contains(ActorName))
NeedsColor(map, name) == name \notin DOMAIN map

AddColor_PastEnd(map, name, used) ==
  [n \in DOMAIN map \cup {name} |-> IF n = name THEN used + MaxHue ELSE map[n]]

\* ObjectToColor.Add(ActorName, ColorsUsed)
AddColor(map, name, used) ==
  [n \in DOMAIN map \cup {name} |-> IF n = name THEN used ELSE map[n]]

NextUsed_Same(used) == used

\* ++ColorsUsed
NextUsed(used) == used + 1

\* The second loop of ColorAllObjects from actor i on, over the palette pal.
\* st = [map, used, failed, oob]: ObjectToColor, ColorsUsed, a failed
\* check(ColorsUsed < ObjectColors.Num()), which is fatal and ends the pass,
\* and an ObjectColors[ObjectToColor[name]] of ColorObject out of range.
RECURSIVE ColorLoop(_, _, _, _)
ColorLoop(actors, i, pal, st) ==
  IF i > Len(actors) \/ st.failed
    THEN st
    ELSE LET name == actors[i]
             new == NeedsColor(st.map, name)
         IN  IF new /\ ~(st.used < Len(pal))
               THEN [st EXCEPT !.failed = TRUE]
               ELSE LET map1 == IF new THEN AddColor(st.map, name, st.used)
                                       ELSE st.map
                        used1 == IF new THEN NextUsed(st.used) ELSE st.used
                    IN  ColorLoop(actors, i + 1, pal,
                          [map |-> map1, used |-> used1, failed |-> FALSE,
                           oob |-> st.oob \/ ~(map1[name] < Len(pal))])

\* ColorAllObjects over the actors of the world: they are counted,
\* GenerateColors(NumberOfActors * 2) is called, and every actor is given a
\* color identifier, if its name has none, and is colored.
ColorAllObjects(actors) ==
  /\ ~checkFailed
  /\ passes < MaxPasses
  /\ LET pal == GenerateColors(Len(actors) * 2)
         st == ColorLoop(actors, 1, pal,
                 [map |-> ObjectToColor, used |-> ColorsUsed,
                  failed |-> FALSE, oob |-> outOfRange])
     IN  /\ ObjectColors' = pal
         /\ ObjectToColor' = st.map
         /\ ColorsUsed' = st.used
         /\ checkFailed' = st.failed
         /\ outOfRange' = st.oob
  /\ passes' = passes + 1
  /\ numberOfActors' = Len(actors)
  /\ seenAgain' = Cardinality({i \in 1..Len(actors) :
                                 actors[i] \in DOMAIN ObjectToColor})
  /\ requested' = Len(actors) * 2
  /\ genCalls' = genCalls + 1
  /\ genCounts' = ColorCounts(Len(actors) * 2)
  /\ UNCHANGED <<threadVars, bufferVars, rateVars, threadHist, callHist,
                 rateHist, toneVars, depthVars, tfVars, pauseHist>>

NextPalette == \E actors \in Worlds : ColorAllObjects(actors)

SpecPalette == Init /\ [][NextPalette]_vars

(* ------------------------------ claims -------------------------------- *)

\* The game thread is past DoneWriting in a fired tick.
ReadPhase == pc \in {"startReading", "publish", "doneReading"}

\* C1: in a fired tick (whose captures succeeded) the game thread is not past
\* DoneWriting before both workers have finished converting this tick's raw
\* plane.
C1_WaitsForWorkers ==
  (ReadPhase /\ ~capFail) => \A w \in Workers : convDone[w]

\* C2: while the read transaction is open, both planes of the instance being
\* read are completely written from this tick's raw planes and no worker is
\* writing into that instance.
C2_NoPartialFrames ==
  (readOpen /\ ~capFail) =>
    \A w \in Workers :
      /\ plane[readInst][w] = [cur |-> TRUE, partial |-> FALSE]
      /\ ~(wpc[w] = "converting" /\ wtarget[w] = readInst)

CallOrder ==
  { <<"none", "none">>, <<"none", "StartWriting">>,
    <<"StartWriting", "DoneWriting">>, <<"DoneWriting", "StartReading">>,
    <<"StartReading", "DoneReading">>, <<"DoneReading", "StartWriting">> }

\* C3: over paused, skipped and fired ticks the transaction calls come in the
\* order StartWriting, DoneWriting, StartReading, DoneReading, over and over:
\* a transaction is open exactly between its Start and its Done call, no call
\* is made outside a fired tick, and InvalidState is never raised.
C3_TransactionOrder ==
  /\ <<prevCall, lastCall>> \in CallOrder
  /\ writeOpen <=> lastCall = "StartWriting"
  /\ readOpen <=> lastCall = "StartReading"
  /\ pc \in {"idle", "stamp", "startWriting"}
       => lastCall \in {"none", "DoneReading"}
  /\ ~invalidState
  /\ pc # "crashed"

\* Two ticks have fired and closed their transactions, a skipped tick has left
\* half a frame interval in the accumulator and the component is paused.
C3_Witness ==
  /\ tick = MaxTicks
  /\ pc = "idle"
  /\ lastCall = "DoneReading"
  /\ Paused
  /\ TimePassed > 0

\* C4: exactly one instance has the write role and exactly one the read role;
\* an open read transaction is on the instance the last DoneWriting closed,
\* which has the read role, and never on the instance open for writing.
C4_Alternation ==
  /\ Cardinality({i \in Inst : role[i] = "write"}) = 1
  /\ Cardinality({i \in Inst : role[i] = "read"}) = 1
  /\ writeOpen => role[writeInst] = "write"
  /\ readOpen => /\ role[readInst] = "read"
                 /\ readInst = lastDoneInst
  /\ (readOpen /\ writeOpen) => readInst # writeInst

\* The second tick reads the other instance than the first one did.
C4_Witness ==
  /\ tick = 2
  /\ readOpen
  /\ readInst = 1
  /\ pc = "publish"

\* C5: a worker has never started more conversions than the game thread has
\* signalled ticks to it.
C5_WorkerOrdering ==
  \A w \in Workers : convStarted[w] <= signalled[w]

\* C6: a worker woken by EndPlay's notification does not convert.
C6_ShutdownWake ==
  \A w \in Workers : ~(wpc[w] = "converting" /\ wokenBy[w] = "endplay")

\* C7: once EndPlay has set Running to false, both joins return.
C7_ShutdownTerminates ==
  (pc = "endNotifyColor") ~> (pc = "ended")

\* C8: a fired tick in which a capture failed does not open the read
\* transaction on its frame.
C8_CaptureFailureAborts ==
  ~(capFail /\ readOpen)

\* C9: with UseEngineFramerate false since SetFramerate, the frames fired
\* times FrameTime plus TimePassed is the unpaused elapsed time, the frames
\* fired never exceed elapsed / FrameTime, and an unpaused tick fires exactly
\* when the accumulated time has reached FrameTime.
C9_AccumulatorConservation ==
  ~engineUsed =>
    /\ framesFired * FrameTime + TimePassed = elapsed
    /\ framesFired * FrameTime <= elapsed
    /\ lastTick = "fired" => lastAccum >= FrameTime
    /\ lastTick = "skipped" => lastAccum < FrameTime

\* A frame fired with time left over, after an earlier frame.
C9_Witness ==
  /\ ~engineUsed
  /\ framesFired >= 2
  /\ lastTick = "fired"
  /\ TimePassed > 0
  /\ Framerate \in Framerates

\* C10: at framerate 10 with ticks 16 ms apart, a frame fires 6 or 7 ticks
\* after the frame before, and never more than 6 ticks pass without one.
C10_FramerateGating ==
  Framerate \in GatingFramerates =>
    /\ sinceFire <= 6
    /\ framesFired >= 1 => lastGap \in {6, 7}

\* The frame that fires exactly at 400 ms, six ticks after the third one.
C10_Witness ==
  /\ Framerate \in GatingFramerates
  /\ framesFired = 4
  /\ lastTick = "fired"
  /\ lastGap = 6
  /\ TimePassed = 0

\* C11: after a call of GenerateColors(N) on an empty palette or a filled one,
\* SatCount * ValCount * 50 is at least N and the palette holds at least N
\* colors.
C11_PaletteSufficiency ==
  genCalls >= 1 =>
    /\ genCounts[1] * genCounts[2] * MaxHue >= requested
    /\ Len(ObjectColors) >= requested

\* 51 colors asked of an empty palette: ValCount grows to 2, 100 colors.
C11_Witness ==
  /\ genCalls = 1
  /\ requested = 51
  /\ genCounts = <<1, 2>>
  /\ Len(ObjectColors) = 2 * MaxHue

\* C15: after GenerateColors(N) the palette is exactly the colors generated
\* for N, whatever it held before.
C15_PaletteRegenerated ==
  genCalls >= 1 => ObjectColors = GeneratedColors(requested)


\* C12: a pass of ColorAllObjects leaves every entry of ObjectToColor in
\* place with the identifier it had, and ColorsUsed never decreases.
C12_StableIdentifiers ==
  [][/\ \A n \in DOMAIN ObjectToColor :
          n \in DOMAIN ObjectToColor' /\ ObjectToColor'[n] = ObjectToColor[n]
     /\ ColorsUsed' >= ColorsUsed]_vars

\* A pass over a world of which some objects had a color and some had none.
C12_Witness ==
  /\ passes >= 2
  /\ seenAgain > 0
  /\ seenAgain < numberOfActors
  /\ ColorsUsed > numberOfActors

\* C13: ColorsUsed is at most the size of the palette, every identifier in
\* ObjectToColor is an index into the palette, and ColorObject has not
\* indexed ObjectColors out of range.
C13_PaletteBound ==
  /\ ColorsUsed <= Len(ObjectColors)
  /\ \A n \in DOMAIN ObjectToColor : ObjectToColor[n] < Len(ObjectColors)
  /\ ~outOfRange

\* Every object name has an identifier.
C13_Witness ==
  /\ ColorsUsed = NumBlocks * BlockSize
  /\ DOMAIN ObjectToColor = 1..(NumBlocks * BlockSize)
  /\ numberOfActors > 0

\* C14: whatever worlds the passes see, the check ColorsUsed < palette size
\* of ColorAllObjects does not fail.
C14_HeadroomSuffices == ~checkFailed

\* More identifiers are in use than the last pass asked colors for.
C14_Witness ==
  /\ passes = MaxPasses
  /\ numberOfActors > 0
  /\ ColorsUsed > 2 * numberOfActors
  /\ ColorsUsed > MaxHue
  /\ ~checkFailed


\* C16: with gamma 1, contrast 0 and brightness 0, ProcessChannel returns the
\* channel value it was given.
C16_ToneIdentity ==
  (toneDone /\ InvGamma = 1 /\ Contrast = 0 /\ Brightness = 0) =>
    chanOut = chanIn

\* C17: a started sensor has a pixel count that is a multiple of 4, and
\* convertDepth has written all Width * Height output values.
C17_DepthGeometryValidated ==
  pc # "constructed" =>
    /\ (Width * Height) % VectorWidth = 0
    /\ depthWritten >= 0 => depthWritten = Width * Height

\* C18: the write-side instance carries the header of the current tick only
\* while a write transaction is open.
C18_HeaderInsideWrite ==
  \A i \in Inst : (header[i] /\ role[i] = "write") => writeOpen

\* C19: the game thread has not used HeaderRead or the Read planes with no
\* read transaction open.
C19_ReadInsideTransaction == ~lateRead


\* C20: a call of TickComponent made while Paused is set changes nothing:
\* TimePassed keeps its value, no transaction is opened, no worker is
\* signalled, nothing is published and the game thread is where it was.
C20_PausedTickNoOp ==
  [][(Paused /\ ~pausedTick /\ pausedTick') =>
       UNCHANGED <<threadVars, bufferVars, rateVars, threadHist, callHist,
                   rateHist>>]_vars

\* A tick has been called during a pause that began with time accumulated
\* and a frame published.
C20_Witness ==
  /\ Paused
  /\ pausedTick
  /\ TimePassed > 0
  /\ tick >= 1
  /\ pc = "idle"


\* C21: for the same gamma, contrast, brightness and visual value the float
\* and the FFloat16 overloads of ProcessChannel return the byte the 8-bit
\* overload returns.
C21_RepresentationIndependence ==
  (toneDone /\ floatDone /\ halfDone) =>
    (chanOutFloat = chanOut /\ chanOutHalf = chanOut)


\* C22: no notification of a fired tick is lost: once the game thread is
\* back between ticks and a worker is parked in its wait again, the worker
\* has converted the raw plane of the last fired tick (whose captures
\* succeeded).
C22_NoLostDispatch ==
  \A w \in Workers :
    (pc = "idle" /\ tick >= 1 /\ ~capFail /\ wpc[w] = "waiting") =>
      convDone[w]


\* C23: the game thread's capture into a raw image array and the worker's
\* conversion that reads the array are never in progress together.
C23_RawPlaneExclusion ==
  \A w \in Workers : ~(pc = PcRead(w) /\ wpc[w] = "converting")

\* The game thread stands at the lock of a raw array of which the worker is
\* converting the pixels of the tick before.
C23_Witness ==
  \E w \in Workers :
    /\ pc = PcLock(w)
    /\ wpc[w] = "converting"
    /\ mtx[w] = "worker"
    /\ tick >= 2


\* C24: the time accumulator of the frame-rate gate is never negative,
\* whether UseEngineFramerate is true, false or toggled between ticks.
C24_AccumulatorNonNegative == TimePassed >= 0


\* C25: two object names never share a color identifier, the identifiers
\* handed out are exactly 0 .. ColorsUsed - 1, and ColorsUsed is the number
\* of entries of ObjectToColor.
C25_IdentifierUniqueness ==
  /\ \A n, m \in DOMAIN ObjectToColor :
       ObjectToColor[n] = ObjectToColor[m] => n = m
  /\ {ObjectToColor[n] : n \in DOMAIN ObjectToColor} = 0..(ColorsUsed - 1)
  /\ ColorsUsed = Cardinality(DOMAIN ObjectToColor)

\* The first pass ran over a world in which two actors bear each name: it
\* visited twice as many actors as it named.
C25_Witness ==
  /\ passes = 1
  /\ numberOfActors = 2 * BlockSize
  /\ ColorsUsed = BlockSize
  /\ Cardinality(DOMAIN ObjectToColor) = BlockSize


\* The colors the last call of GenerateColors added to ObjectColors.
LastGenerated ==
  SubSeq(ObjectColors,
         Len(ObjectColors) - genCounts[1] * genCounts[2] * MaxHue + 1,
         Len(ObjectColors))

\* C26: in the colors of one GenerateColors call the hue indices of the 50
\* buckets are a permutation of 0..49, and no (saturation step, value step,
\* hue index) triple occurs twice.
C26_DistinctCoordinates ==
  genCalls >= 1 =>
    /\ {LastGenerated[i][5] : i \in 1..MaxHue} = 0..(MaxHue - 1)
    /\ Cardinality({<<LastGenerated[i][1], LastGenerated[i][3],
                       LastGenerated[i][5]>> : i \in 1..Len(LastGenerated)})
         = Len(LastGenerated)

\* A second call, for 200 colors, has appended 2 * 2 * 50 colors to a palette
\* that held some before.
C26_Witness ==
  /\ genCalls = 2
  /\ requested = 200
  /\ genCounts = <<2, 2>>
  /\ Len(LastGenerated) = 4 * MaxHue
  /\ Len(ObjectColors) > 4 * MaxHue


=============================================================================
